---- MODULE Spec2Model ----
(***************************************************************************)
(* Auto-follow scroll controller of the chat message pane:                 *)
(*   hooks/useAutoScroll   (state, refs, handlers, driver loop)            *)
(*   utils/scrollUtils     (classifier, debounce)                          *)
(*   components/chat/MessageList.jsx (effects wiring the hook to props)    *)
(*                                                                         *)
(* One action is one task of the single JavaScript thread: an event        *)
(* handler, a timer callback or an animation-frame callback, followed by   *)
(* the React commit of the state it set and by the effects of that commit. *)
(* Callbacks scheduled with requestAnimationFrame / setTimeout are kept as *)
(* pending callbacks together with the render values their closure         *)
(* captured.                                                               *)
(*                                                                         *)
(* What the model abstracts:                                               *)
(*  - time is the order of the tasks; of the 8 ms throttle only "more than *)
(*    8 ms since the last throttled update" (lastStateUpdate = "old") or   *)
(*    not ("recent") is kept;                                              *)
(*  - scrollTo({behavior: 'smooth'}) reaches the bottom within its frame;  *)
(*  - clearInterval(id of an animation frame) cancels no frame: the ids of *)
(*    timers and of animation frames are different lists of the browser;   *)
(*  - the id of a frame that ran or was cancelled is used again, so that   *)
(*    the ids stay in a finite range;                                      *)
(*  - the error state of the hook is left out; the one call that can throw *)
(*    is scrollTo of the container, in AnimationFrameScrollToThrows;       *)
(*  - the state a task sets is rendered in one commit (automatic batching  *)
(*    of React 18, the version renderHook of @testing-library/react in the *)
(*    hook's test needs).                                                  *)
(***************************************************************************)
EXTENDS Integers, FiniteSets, Sequences, TLC

----------------------------------------------------------------------------
\* Bounds of the model
MaxMessages == 1      \* messages of one conversation
MaxDriver   == 2      \* pending driver frames
MaxStale    == 1      \* pending calls of superseded debounce instances
MaxScrolling == 2     \* pending timers of handleDownArrowClick
BaseHeight    == 140  \* content extent of an empty conversation
MessageHeight == 60   \* content extent added by one message
ClientHeight  == 100  \* visible extent of the viewport

\* Program constants
SCROLL_THRESHOLD   == 50
ImmediateThreshold == 5
DebounceThreshold  == 10

AT_BOTTOM      == "at_bottom"
SCROLLED_UP    == "scrolled_up"
SCROLLING_DOWN == "scrolling_down"
SCROLL_POSITION == {AT_BOTTOM, SCROLLED_UP, SCROLLING_DOWN}

Conversations == {"c1", "c2"}

\* What is recorded of a scroll event: whether handleScroll received it while
\* FOLLOWING with a drop of more than DebounceThreshold to a place off the
\* bottom band, and how often the pause block
\* (setUserHasScrolledUp(true); setAutoScrollEnabled(false)) ran for it
NoEvent == [deliberate |-> FALSE, pauses |-> 0]

\* An element whose metrics are given rather than laid out by the browser (the
\* argument of the functions when they are exercised on metrics of any kind),
\* and the position getScrollPositionState returned for them and for the last
\* offset it was called with
NoProbe == [on |-> FALSE, scrollTop |-> 0, scrollHeight |-> 0, clientHeight |-> 0,
            lastScrollTop |-> 0, position |-> "none"]

\* Offsets and extents such an element reports: around the bottom threshold,
\* overscrolled, with content smaller than the viewport, and negative
ProbeOffsets == {0, 10, 49, 50, 51, 100, 151}

ProbeExtents == {-1, 0, 50, 100, 200, 201}

VARIABLES
  \* useAutoScroll: React state (committed values)
  autoScrollEnabled, userHasScrolledUp, scrollPosition,
  \* useAutoScroll: refs
  lastScrollTop, isAutoScrolling, scrollContainerRef, scrollTimeoutRef,
  isProcessingScroll, lastStateUpdate, scrollIntervalRef,
  \* MessageList: refs
  prevMessageCountRef, prevStreamingRef, prevConversationRef, prevLoadingRef,
  \* MessageList: props
  messages, streaming, loadingMessages, selectedConversation,
  \* the scroll container element
  scrollTop, scrollEventPending,
  \* callbacks waiting in the browser
  frameCallbacks, runningCallbacks, jumpPending, enableJumpPending, procPending,
  debouncePending, staleDebounce,
  \* the scroll event held by the pending call of the current debounce instance
  debounceEvent,
  \* no scroll event has been handled since resetAutoScrollState was called last
  awaitingFirstScroll,
  \* ChatPanel: the auto-scroll state MessageList reported last
  autoScrollState,
  \* ChatPanel: state, and the timers of handleDownArrowClick that wait
  isScrollingToBottom, autoScrollFunctions, scrollingTimeouts,
  \* the element with given metrics
  probe,
  \* observation of the last task
  lastOp

vars == << autoScrollEnabled, userHasScrolledUp, scrollPosition,
           lastScrollTop, isAutoScrolling, scrollContainerRef, scrollTimeoutRef,
           isProcessingScroll, lastStateUpdate, scrollIntervalRef,
           prevMessageCountRef, prevStreamingRef, prevConversationRef, prevLoadingRef,
           messages, streaming, loadingMessages, selectedConversation,
           scrollTop, scrollEventPending,
           frameCallbacks, runningCallbacks, jumpPending, enableJumpPending, procPending,
           debouncePending, staleDebounce, debounceEvent, awaitingFirstScroll, autoScrollState,
           isScrollingToBottom, autoScrollFunctions, scrollingTimeouts, probe, lastOp >>

----------------------------------------------------------------------------
\* The scroll container

ScrollHeight(m) == BaseHeight + MessageHeight * m

MaxScrollTop(m) == ScrollHeight(m) - ClientHeight

\* While messages load the container holds the placeholder, which is as high
\* as the container: nothing to scroll
ContentHeight(r) == IF r.loadingMessages THEN ClientHeight ELSE ScrollHeight(r.messages)

MaxTop(r) == ContentHeight(r) - ClientHeight

\* Offsets a user gesture can leave the viewport at
UserOffsets(m) == {o \in {28, 40, MaxScrollTop(m) - 8} : o >= 0 /\ o <= MaxScrollTop(m)}

\* scrollUtils.getScrollMetrics: a detached element reports zeros
getScrollMetrics(r) ==
  IF ~r.scrollContainerRef
  THEN [scrollTop |-> 0, scrollHeight |-> 0, clientHeight |-> 0]
  ELSE IF r.probe.on
  THEN [scrollTop |-> r.probe.scrollTop, scrollHeight |-> r.probe.scrollHeight,
        clientHeight |-> r.probe.clientHeight]
  ELSE [scrollTop |-> r.scrollTop, scrollHeight |-> ContentHeight(r), clientHeight |-> ClientHeight]

\* at the bottom only while the viewport ends inside the content
isAtBottomInsideContent(top, height, client) ==
  /\ height - top - client <= SCROLL_THRESHOLD
  /\ height - top - client >= 0

\* scrollUtils.isAtBottom
isAtBottom(top, height, client) == height - top - client <= SCROLL_THRESHOLD

\* a classifier that takes an offset equal to the last one for a move
getScrollPositionStateOnEqual(top, height, client, last) ==
  IF isAtBottom(top, height, client) THEN AT_BOTTOM
  ELSE IF top <= last THEN SCROLLING_DOWN
  ELSE SCROLLED_UP

\* scrollUtils.getScrollPositionState
getScrollPositionState(top, height, client, last) ==
  IF isAtBottom(top, height, client) THEN AT_BOTTOM
  ELSE IF top < last THEN SCROLLING_DOWN
  ELSE SCROLLED_UP

----------------------------------------------------------------------------
\* The program state as one record, so that handlers compose as functions

S == [ autoScrollEnabled |-> autoScrollEnabled, userHasScrolledUp |-> userHasScrolledUp,
       scrollPosition |-> scrollPosition,
       lastScrollTop |-> lastScrollTop, isAutoScrolling |-> isAutoScrolling,
       scrollContainerRef |-> scrollContainerRef, scrollTimeoutRef |-> scrollTimeoutRef,
       isProcessingScroll |-> isProcessingScroll, lastStateUpdate |-> lastStateUpdate,
       scrollIntervalRef |-> scrollIntervalRef,
       prevMessageCountRef |-> prevMessageCountRef, prevStreamingRef |-> prevStreamingRef,
       prevConversationRef |-> prevConversationRef, prevLoadingRef |-> prevLoadingRef,
       messages |-> messages, streaming |-> streaming, loadingMessages |-> loadingMessages,
       selectedConversation |-> selectedConversation,
       scrollTop |-> scrollTop, scrollEventPending |-> scrollEventPending,
       frameCallbacks |-> frameCallbacks, runningCallbacks |-> runningCallbacks,
       jumpPending |-> jumpPending, enableJumpPending |-> enableJumpPending,
       procPending |-> procPending,
       debouncePending |-> debouncePending, staleDebounce |-> staleDebounce,
       debounceEvent |-> debounceEvent, awaitingFirstScroll |-> awaitingFirstScroll,
       autoScrollState |-> autoScrollState,
       isScrollingToBottom |-> isScrollingToBottom,
       autoScrollFunctions |-> autoScrollFunctions,
       scrollingTimeouts |-> scrollingTimeouts,
       probe |-> probe ]

Set(r) ==
  /\ autoScrollEnabled' = r.autoScrollEnabled
  /\ userHasScrolledUp' = r.userHasScrolledUp
  /\ scrollPosition' = r.scrollPosition
  /\ lastScrollTop' = r.lastScrollTop
  /\ isAutoScrolling' = r.isAutoScrolling
  /\ scrollContainerRef' = r.scrollContainerRef
  /\ scrollTimeoutRef' = r.scrollTimeoutRef
  /\ isProcessingScroll' = r.isProcessingScroll
  /\ lastStateUpdate' = r.lastStateUpdate
  /\ scrollIntervalRef' = r.scrollIntervalRef
  /\ prevMessageCountRef' = r.prevMessageCountRef
  /\ prevStreamingRef' = r.prevStreamingRef
  /\ prevConversationRef' = r.prevConversationRef
  /\ prevLoadingRef' = r.prevLoadingRef
  /\ messages' = r.messages
  /\ streaming' = r.streaming
  /\ loadingMessages' = r.loadingMessages
  /\ selectedConversation' = r.selectedConversation
  /\ scrollTop' = r.scrollTop
  /\ scrollEventPending' = r.scrollEventPending
  /\ frameCallbacks' = r.frameCallbacks
  /\ runningCallbacks' = r.runningCallbacks
  /\ jumpPending' = r.jumpPending
  /\ enableJumpPending' = r.enableJumpPending
  /\ procPending' = r.procPending
  /\ debouncePending' = r.debouncePending
  /\ staleDebounce' = r.staleDebounce
  /\ debounceEvent' = r.debounceEvent
  /\ awaitingFirstScroll' = r.awaitingFirstScroll
  /\ autoScrollState' = r.autoScrollState
  /\ isScrollingToBottom' = r.isScrollingToBottom
  /\ autoScrollFunctions' = r.autoScrollFunctions
  /\ scrollingTimeouts' = r.scrollingTimeouts
  /\ probe' = r.probe

downArrowVisibleOffBottom == autoScrollState.scrollPosition # AT_BOTTOM

\* ChatPanel: the visible prop of DownArrowButton
downArrowVisible == autoScrollState.userHasScrolledUp

\* ChatPanel: the disabled prop of DownArrowButton
downArrowDisabled == loadingMessages \/ isScrollingToBottom

\* The values a render closes over
Rendered(r) == [autoScrollEnabled |-> r.autoScrollEnabled,
                userHasScrolledUp |-> r.userHasScrolledUp,
                scrollPosition |-> r.scrollPosition]

\* The callbacks of the browser's animation-frame list.  A frame runs every
\* callback requested before it, in the order of the requests (runningCallbacks
\* holds those of the frame in progress and is empty between tasks).  The list
\* keeps the callbacks whose order matters: "append" is MessageList's
\* () => autoScrollToBottom(), "driver" is scrollFrame.  The one-shot scrollTo
\* frames and the frames that clear isProcessingScroll commute with every other
\* callback and repeat without effect, so one flag stands for each kind:
\* jumpPending for the frame autoScrollToBottom requests, enableJumpPending for
\* the frame enableAutoScroll requests, procPending for the frame of
\* debouncedScrollHandler.
AppendCallback == [kind |-> "append", id |-> 0, enabled |-> TRUE]

DriverCallback(id, cap) == [kind |-> "driver", id |-> id, enabled |-> cap]

SeqToSet(q) == {q[i] : i \in 1..Len(q)}

DriverFramesOf(r) == {f \in SeqToSet(r.frameCallbacks) \cup SeqToSet(r.runningCallbacks) : f.kind = "driver"}

\* the driver frames waiting for the next animation frame
driverFrames == {f \in SeqToSet(frameCallbacks) : f.kind = "driver"}

\* The bounds of the model, as a guard on the result of a task
Bounded(r) ==
  /\ Cardinality(DriverFramesOf(r)) <= MaxDriver
  /\ Cardinality(r.staleDebounce) <= MaxStale

----------------------------------------------------------------------------
\* useAutoScroll

\* clearTimeout cancels the animation timer; clearInterval is handed the id of
\* an animation frame, which it does not cancel: only the slot is emptied
clearScrollTimeout(r) ==
  [r EXCEPT !.scrollTimeoutRef = FALSE, !.scrollIntervalRef = 0]

\* Date.now() - lastStateUpdate.current > 8
throttleOpen(r) == r.lastStateUpdate = "old"

throttledStateUpdate(r, e, u, p) ==
  IF throttleOpen(r)
  THEN [r EXCEPT !.autoScrollEnabled = e, !.userHasScrolledUp = u,
                 !.scrollPosition = p, !.lastStateUpdate = "recent"]
  ELSE r

\* two "append" callbacks next to each other act as one
RECURSIVE Collapse(_)
Collapse(q) ==
  IF Len(q) < 2 THEN q
  ELSE IF q[1].kind = "append" /\ q[2].kind = "append" THEN Collapse(Tail(q))
  ELSE <<q[1]>> \o Collapse(Tail(q))

\* a cancelled callback leaves the list, also the list of the frame in progress
cancelAnimationFrame(r, id) ==
  [r EXCEPT !.frameCallbacks = Collapse(SelectSeq(@, LAMBDA f : f.id # id)),
            !.runningCallbacks = Collapse(SelectSeq(@, LAMBDA f : f.id # id))]

\* the id requestAnimationFrame returns: one that no pending callback holds
FreshId(r) == CHOOSE i \in 1..(MaxDriver + 2) :
                 /\ \A f \in DriverFramesOf(r) : f.id # i
                 /\ \A j \in 1..(i - 1) : \E f \in DriverFramesOf(r) : f.id = j

requestAnimationFrame(r, f) ==
  [r EXCEPT !.frameCallbacks = Collapse(Append(@, f))]

enableAutoScroll(r) ==
  LET r1 == throttledStateUpdate(r, TRUE, FALSE, AT_BOTTOM)
  IN  IF r1.scrollContainerRef
      THEN [clearScrollTimeout([r1 EXCEPT !.isAutoScrolling = TRUE])
              EXCEPT !.enableJumpPending = TRUE, !.scrollTimeoutRef = TRUE]
      ELSE r1

\* a click handler that starts its timer without raising isScrollingToBottom
handleDownArrowClickNoFlag(r) ==
  IF r.loadingMessages \/ r.isScrollingToBottom \/ ~r.autoScrollFunctions
  THEN r
  ELSE [enableAutoScroll(r) EXCEPT !.scrollingTimeouts = @ + 1]

\* ChatPanel.handleDownArrowClick.  enableAutoScroll catches what its body
\* throws, so the catch branch of the handler is never entered
handleDownArrowClick(r) ==
  IF r.loadingMessages \/ r.isScrollingToBottom \/ ~r.autoScrollFunctions
  THEN r
  ELSE [enableAutoScroll(r) EXCEPT !.isScrollingToBottom = TRUE,
                                   !.scrollingTimeouts = @ + 1]

disableAutoScroll(r) == throttledStateUpdate(r, FALSE, TRUE, SCROLLED_UP)

resetAutoScrollState(r) ==
  LET r1 == throttledStateUpdate(r, TRUE, FALSE, AT_BOTTOM)
  IN  clearScrollTimeout([r1 EXCEPT !.lastScrollTop = 0, !.isAutoScrolling = FALSE,
                                    !.isProcessingScroll = FALSE,
                                    !.awaitingFirstScroll = TRUE])

shouldShowDownArrow(r) == r.userHasScrolledUp

\* cap: the autoScrollEnabled the closure captured
autoScrollToBottom(r, cap) ==
  IF ~cap \/ ~r.scrollContainerRef THEN r
  ELSE [clearScrollTimeout([r EXCEPT !.isAutoScrolling = TRUE])
          EXCEPT !.jumpPending = TRUE, !.scrollTimeoutRef = TRUE]

stopContinuousScroll(r) ==
  IF r.scrollIntervalRef # 0
  THEN [cancelAnimationFrame(r, r.scrollIntervalRef) EXCEPT !.scrollIntervalRef = 0]
  ELSE r

startContinuousScroll(r, cap) ==
  IF r.scrollIntervalRef # 0 THEN r
  ELSE LET id == FreshId(r)
       IN [requestAnimationFrame(r, DriverCallback(id, cap)) EXCEPT !.scrollIntervalRef = id]

\* an iteration that schedules the next one and requests no jump
scrollFrameIdle(r, cap) ==
  IF ~cap \/ ~r.scrollContainerRef
  THEN stopContinuousScroll(r)
  ELSE LET id == FreshId(r)
       IN [requestAnimationFrame(r, DriverCallback(id, cap)) EXCEPT !.scrollIntervalRef = id]

\* one iteration of the driver loop; cap is the autoScrollEnabled of the
\* render whose startContinuousScroll made the loop
scrollFrame(r, cap) ==
  IF ~cap \/ ~r.scrollContainerRef
  THEN stopContinuousScroll(r)
  ELSE LET r1 == autoScrollToBottom(r, cap)
           id == FreshId(r1)
       IN [requestAnimationFrame(r1, DriverCallback(id, cap)) EXCEPT !.scrollIntervalRef = id]

\* a pass whose resume at the bottom clears userHasScrolledUp and leaves
\* autoScrollEnabled as it is
updateScrollPositionHalfResume(r, cap) ==
  LET m == getScrollMetrics(r)
  IN  IF m.scrollHeight <= 0 \/ m.clientHeight <= 0 THEN r
      ELSE
        LET newScrollPosition == getScrollPositionState(m.scrollTop, m.scrollHeight,
                                                       m.clientHeight, r.lastScrollTop)
            r1 == IF newScrollPosition # cap.scrollPosition /\ throttleOpen(r)
                  THEN [r EXCEPT !.scrollPosition = newScrollPosition,
                                 !.lastStateUpdate = "recent"]
                  ELSE r
            r2 == IF isAtBottom(m.scrollTop, m.scrollHeight, m.clientHeight)
                     /\ cap.userHasScrolledUp
                  THEN [r1 EXCEPT !.userHasScrolledUp = FALSE]
                  ELSE r1
        IN [r2 EXCEPT !.lastScrollTop = m.scrollTop]

\* cap: the render values (userHasScrolledUp, scrollPosition) the closure captured
updateScrollPosition(r, cap) ==
  LET m == getScrollMetrics(r)
  IN  IF m.scrollHeight <= 0 \/ m.clientHeight <= 0 THEN r
      ELSE
        LET newScrollPosition == getScrollPositionState(m.scrollTop, m.scrollHeight,
                                                       m.clientHeight, r.lastScrollTop)
            r1 == IF newScrollPosition # cap.scrollPosition /\ throttleOpen(r)
                  THEN [r EXCEPT !.scrollPosition = newScrollPosition,
                                 !.lastStateUpdate = "recent"]
                  ELSE r
            r2 == IF isAtBottom(m.scrollTop, m.scrollHeight, m.clientHeight)
                     /\ cap.userHasScrolledUp
                  THEN [r1 EXCEPT !.userHasScrolledUp = FALSE, !.autoScrollEnabled = TRUE]
                  ELSE r1
        IN [r2 EXCEPT !.lastScrollTop = m.scrollTop]

\* the function wrapped by debounce()
debouncedScrollHandler(r, cap) ==
  IF r.isProcessingScroll THEN r
  ELSE
    LET m == getScrollMetrics(r)
        scrollDifference == r.lastScrollTop - m.scrollTop
        r0 == [r EXCEPT !.isProcessingScroll = TRUE]
        r1 == IF scrollDifference > DebounceThreshold /\ m.scrollTop < r.lastScrollTop
              THEN LET c == stopContinuousScroll(r0)
                   IN IF ~cap.userHasScrolledUp
                      THEN [c EXCEPT !.userHasScrolledUp = TRUE, !.autoScrollEnabled = FALSE]
                      ELSE c
              ELSE r0
        r2 == updateScrollPosition(r1, cap)
    IN [r2 EXCEPT !.procPending = TRUE]

\* the pause block of debouncedScrollHandler runs
debouncedPauses(r, cap) ==
  LET m == getScrollMetrics(r)
  IN  /\ ~r.isProcessingScroll
      /\ r.lastScrollTop - m.scrollTop > DebounceThreshold
      /\ m.scrollTop < r.lastScrollTop
      /\ ~cap.userHasScrolledUp

\* the record of the event handleScroll is called with
scrollEvent(r) ==
  LET m == getScrollMetrics(r)
      scrollDifference == r.lastScrollTop - m.scrollTop
  IN  IF /\ r.autoScrollEnabled /\ ~r.userHasScrolledUp
         /\ scrollDifference > DebounceThreshold
         /\ ~isAtBottom(m.scrollTop, m.scrollHeight, m.clientHeight)
      THEN [deliberate |-> TRUE,
            pauses |-> IF scrollDifference > ImmediateThreshold
                          /\ m.scrollTop < r.lastScrollTop /\ ~r.userHasScrolledUp
                       THEN 1 ELSE 0]
      ELSE NoEvent

\* a handler that hands the event to the debounce and leaves the detection to
\* the debounced pass
handleScrollDeferred(r) ==
  [r EXCEPT !.debouncePending = TRUE, !.debounceEvent = scrollEvent(r)]

\* a handler that leaves lastScrollTop to the debounced pass
handleScrollKeepsOffset(r) ==
  LET m == getScrollMetrics(r)
      scrollDifference == r.lastScrollTop - m.scrollTop
      r1 == IF scrollDifference > ImmediateThreshold /\ m.scrollTop < r.lastScrollTop
            THEN LET c == stopContinuousScroll(r)
                 IN IF ~r.userHasScrolledUp
                    THEN [c EXCEPT !.userHasScrolledUp = TRUE, !.autoScrollEnabled = FALSE]
                    ELSE c
            ELSE r
  IN [r1 EXCEPT !.debouncePending = TRUE, !.debounceEvent = scrollEvent(r),
                !.awaitingFirstScroll = FALSE]

\* a handler that takes every move of more than the threshold for the user's,
\* whatever its direction
handleScrollAnyMove(r) ==
  LET m == getScrollMetrics(r)
      r1 == IF r.lastScrollTop - m.scrollTop > ImmediateThreshold
               \/ m.scrollTop - r.lastScrollTop > ImmediateThreshold
            THEN LET c == stopContinuousScroll(r)
                 IN IF ~r.userHasScrolledUp
                    THEN [c EXCEPT !.userHasScrolledUp = TRUE, !.autoScrollEnabled = FALSE]
                    ELSE c
            ELSE r
  IN [r1 EXCEPT !.lastScrollTop = m.scrollTop, !.debouncePending = TRUE,
                !.debounceEvent = scrollEvent(r), !.awaitingFirstScroll = FALSE]

\* the handler of the committed render: its closure holds the committed state
handleScroll(r) ==
  LET m == getScrollMetrics(r)
      scrollDifference == r.lastScrollTop - m.scrollTop
      r1 == IF scrollDifference > ImmediateThreshold /\ m.scrollTop < r.lastScrollTop
            THEN LET c == stopContinuousScroll(r)
                 IN IF ~r.userHasScrolledUp
                    THEN [c EXCEPT !.userHasScrolledUp = TRUE, !.autoScrollEnabled = FALSE]
                    ELSE c
            ELSE r
  IN [r1 EXCEPT !.lastScrollTop = m.scrollTop, !.debouncePending = TRUE,
                !.debounceEvent = scrollEvent(r), !.awaitingFirstScroll = FALSE]

\* The arguments handleScroll can be called with: the scroll event of the
\* container, null, and an object without target
ScrollEvents == {"scroll", "null", "no target"}

handleScrollOfUnguarded(r, event) == handleScroll(r)

\* handleScroll with its argument: without an event or a target it returns at once
handleScrollOf(r, event) ==
  IF event = "null" \/ event = "no target" THEN r ELSE handleScroll(r)

cleanup(r) ==
  [stopContinuousScroll(clearScrollTimeout(r))
     EXCEPT !.isAutoScrolling = FALSE, !.isProcessingScroll = FALSE]

----------------------------------------------------------------------------
\* MessageList: the effects, in the order the component declares them.
\* rend holds the values of the render the effects belong to; the refs they
\* read and write are those of r.

\* effect on [loadingMessages]: handleScrollDuringLoading
loadingEffect(r) ==
  IF r.loadingMessages # r.prevLoadingRef
  THEN [r EXCEPT !.isProcessingScroll = r.loadingMessages,
                 !.prevLoadingRef = r.loadingMessages]
  ELSE r

notifyEffectSilent(r, rend) == r

\* effect on [autoScrollState, onAutoScrollStateChange], autoScrollState being
\* the memo of the rendered values: ChatPanel's handleAutoScrollStateChange
\* stores what it is given
notifyEffect(r, rend) == [r EXCEPT !.autoScrollState = rend]

conversationEffectUntracked(r) ==
  IF r.prevConversationRef # r.selectedConversation
  THEN [resetAutoScrollState(r) EXCEPT !.prevMessageCountRef = 0,
                                       !.prevStreamingRef = FALSE]
  ELSE r

\* effect on [selectedConversation]
conversationEffect(r) ==
  IF r.prevConversationRef # r.selectedConversation
  THEN [resetAutoScrollState(r) EXCEPT !.prevMessageCountRef = 0,
                                       !.prevStreamingRef = FALSE,
                                       !.prevConversationRef = r.selectedConversation]
  ELSE r

\* effect on [streaming, autoScrollEnabled]
streamingEffect(r, rend) ==
  LET streamingStarted == r.streaming /\ ~r.prevStreamingRef
      streamingStopped == ~r.streaming /\ r.prevStreamingRef
      r1 == IF streamingStarted /\ ~rend.autoScrollEnabled THEN enableAutoScroll(r) ELSE r
      r2 == IF streamingStarted /\ rend.autoScrollEnabled
            THEN startContinuousScroll(r1, rend.autoScrollEnabled)
            ELSE IF streamingStopped \/ ~rend.autoScrollEnabled
                 THEN stopContinuousScroll(r1)
                 ELSE r1
  IN [r2 EXCEPT !.prevStreamingRef = r.streaming]

\* effect on [autoScrollEnabled]
stopWhenDisabledEffect(r, rend) ==
  IF ~rend.autoScrollEnabled THEN stopContinuousScroll(r) ELSE r

newMessagesEffectStreamOnly(r, rend) ==
  LET isStreamingStarted == r.streaming /\ ~r.prevStreamingRef
      r1 == IF rend.autoScrollEnabled /\ isStreamingStarted
            THEN requestAnimationFrame(r, AppendCallback)
            ELSE r
  IN [r1 EXCEPT !.prevMessageCountRef = r.messages]

\* effect on [messages, streaming, autoScrollEnabled]; the frame it requests
\* calls the autoScrollToBottom of this render, which captured enabled = TRUE
newMessagesEffect(r, rend) ==
  LET hasNewMessages == r.messages > r.prevMessageCountRef
      isStreamingStarted == r.streaming /\ ~r.prevStreamingRef
      r1 == IF rend.autoScrollEnabled /\ (hasNewMessages \/ isStreamingStarted)
            THEN requestAnimationFrame(r, AppendCallback)
            ELSE r
  IN [r1 EXCEPT !.prevMessageCountRef = r.messages]

\* effect on [loadingMessages, autoScrollEnabled, messages.length]
loadingCompleteEffect(r, rend) ==
  IF ~r.loadingMessages /\ r.prevLoadingRef /\ rend.autoScrollEnabled /\ r.messages > 0
  THEN requestAnimationFrame(r, AppendCallback)
  ELSE r

\* useCallback(debounce(...), [updateScrollPosition, userHasScrolledUp]): a render
\* in which scrollPosition or userHasScrolledUp changed makes a new debounce
\* instance; what the previous instance has pending stays pending, with the
\* values of the render that made it
supersedeDebounce(prev, r) ==
  IF (r.userHasScrolledUp # prev.userHasScrolledUp \/ r.scrollPosition # prev.scrollPosition)
     /\ r.debouncePending
  THEN [r EXCEPT !.debouncePending = FALSE, !.debounceEvent = NoEvent,
                 !.staleDebounce = @ \cup {[userHasScrolledUp |-> prev.userHasScrolledUp,
                                            scrollPosition |-> prev.scrollPosition,
                                            event |-> r.debounceEvent]}]
  ELSE r

\* one render of MessageList after prev: each effect runs if one of its
\* dependencies changed
RenderPass(prev, r) ==
  LET rend == Rendered(r)
      chLoading   == r.loadingMessages # prev.loadingMessages
      chConv      == r.selectedConversation # prev.selectedConversation
      chStreaming == r.streaming # prev.streaming
      chEnabled   == r.autoScrollEnabled # prev.autoScrollEnabled
      chMessages  == r.messages # prev.messages
      chState     == Rendered(r) # Rendered(prev)
      RunEffect(changed, Effect(_), x) == IF changed THEN Effect(x) ELSE x
      e0 == supersedeDebounce(prev, r)
      e1 == RunEffect(chLoading, loadingEffect, e0)
      e2 == RunEffect(chState, LAMBDA x : notifyEffect(x, rend), e1)
      e4 == RunEffect(chConv, conversationEffect, e2)
      e5 == RunEffect(chStreaming \/ chEnabled, LAMBDA x : streamingEffect(x, rend), e4)
      e6 == RunEffect(chEnabled, LAMBDA x : stopWhenDisabledEffect(x, rend), e5)
      e7 == RunEffect(chMessages \/ chStreaming \/ chEnabled,
                      LAMBDA x : newMessagesEffect(x, rend), e6)
      e8 == RunEffect(chLoading \/ chEnabled \/ chMessages,
                      LAMBDA x : loadingCompleteEffect(x, rend), e7)
  IN e8

\* React after a task: prev is the committed render, r the state the task left.
\* The state an effect sets is rendered in a second pass.  An unmounted
\* component ignores setState.
Commit(prev, r) ==
  IF ~r.scrollContainerRef
  THEN [r EXCEPT !.autoScrollEnabled = prev.autoScrollEnabled,
                 !.userHasScrolledUp = prev.userHasScrolledUp,
                 !.scrollPosition = prev.scrollPosition]
  ELSE LET a == RenderPass(prev, r)
       IN IF Rendered(a) # Rendered(r) THEN RenderPass(r, a) ELSE a

----------------------------------------------------------------------------
\* Tasks

\* What the last task did: a frame of autoScrollToBottom called scrollTo on the
\* container, a driver callback ran, the scroll event the task handled, and
\* whether an exception left a callback of the task uncaught, and whether the
\* task was a click on the down arrow
Quiet == [scrollTo |-> FALSE, driver |-> FALSE, deliberate |-> FALSE, pauses |-> 0,
          uncaught |-> FALSE, noTarget |-> FALSE, click |-> FALSE]

Task(r) ==
  /\ Bounded(r)
  /\ Set(r)
  /\ lastOp' = Quiet

Min(a, b) == IF a < b THEN a ELSE b

\* the debounced pass of the call that holds event e
passOf(e, pausesAgain) ==
  [Quiet EXCEPT !.deliberate = e.deliberate,
                !.pauses = IF e.deliberate /\ pausesAgain THEN e.pauses + 1 ELSE e.pauses]

\* the user moves the viewport; the scroll event is delivered later
UserScroll ==
  /\ scrollContainerRef /\ ~loadingMessages
  /\ \E o \in UserOffsets(messages) :
       /\ o # scrollTop
       /\ Task([S EXCEPT !.scrollTop = o, !.scrollEventPending = TRUE])

\* onScroll of the container
HandleScroll ==
  /\ scrollContainerRef
  /\ scrollEventPending
  /\ LET r == Commit(S, handleScroll([S EXCEPT !.scrollEventPending = FALSE]))
     IN /\ Bounded(r)
        /\ Set(r)
        /\ lastOp' = [Quiet EXCEPT !.deliberate = scrollEvent(S).deliberate,
                                   !.pauses = scrollEvent(S).pauses]

\* handleScroll is called with null or with an object without target
HandleScrollNoTarget ==
  /\ scrollContainerRef
  /\ \E event \in ScrollEvents \ {"scroll"} :
       LET r == Commit(S, handleScrollOf(S, event))
       IN /\ Bounded(r)
          /\ Set(r)
          /\ lastOp' = [Quiet EXCEPT !.noTarget = TRUE]

\* debounce: the frame and then the timer of the current instance have run,
\* func.apply(null, args) is called.  A call is pending from handleScroll until
\* then; the next call on the same instance cancels whichever of the two waits.
DebounceFire ==
  /\ debouncePending
  /\ LET r == Commit(S, debouncedScrollHandler([S EXCEPT !.debouncePending = FALSE,
                                                        !.debounceEvent = NoEvent],
                                               Rendered(S)))
     IN /\ Bounded(r)
        /\ Set(r)
        /\ lastOp' = passOf(debounceEvent, debouncedPauses(S, Rendered(S)))

\* the same for a superseded debounce instance, which no later call cancels
StaleDebounceFire ==
  \E d \in staleDebounce :
    LET r == Commit(S, debouncedScrollHandler([S EXCEPT !.staleDebounce = @ \ {d}], d))
    IN /\ Bounded(r)
       /\ Set(r)
       /\ lastOp' = passOf(d.event, debouncedPauses(S, d))

\* the one-shot frame of enableAutoScroll and of autoScrollToBottom
jumpFrame(r) ==
  IF r.scrollContainerRef
  THEN [r EXCEPT !.scrollTop = MaxTop(r),
                 !.scrollEventPending = @ \/ r.scrollTop # MaxTop(r)]
  ELSE r

\* the callbacks of runningCallbacks, in order
RECURSIVE runCallbacks(_)
runCallbacks(r) ==
  IF r.runningCallbacks = <<>> THEN r
  ELSE LET f == Head(r.runningCallbacks)
           r0 == [r EXCEPT !.runningCallbacks = Tail(@)]
       IN runCallbacks(IF f.kind = "driver" THEN scrollFrame(r0, f.enabled)
                       ELSE autoScrollToBottom(r0, f.enabled))

\* one animation frame of the browser; the scroll event of a frame is
\* dispatched before the frame's callbacks run
AnimationFrame ==
  /\ ~scrollEventPending
  /\ \/ frameCallbacks # <<>>
     \/ jumpPending
     \/ enableJumpPending
     \/ procPending
  /\ LET r0 == [S EXCEPT !.runningCallbacks = frameCallbacks, !.frameCallbacks = <<>>,
                         !.jumpPending = FALSE, !.enableJumpPending = FALSE,
                         !.procPending = FALSE]
         r1 == IF jumpPending \/ enableJumpPending THEN jumpFrame(r0) ELSE r0
         r2 == IF procPending THEN [r1 EXCEPT !.isProcessingScroll = FALSE] ELSE r1
         r3 == runCallbacks(r2)
     IN /\ Bounded(r3)
        /\ Set(r3)
        /\ lastOp' = [Quiet EXCEPT !.scrollTo = jumpPending /\ scrollContainerRef,
                                   !.driver = driverFrames # {}]

\* the same frame with a container whose scrollTo throws.  The one-shot
\* callbacks `() => { if (ref.current) ref.current.scrollTo(...) }` hold no
\* try/catch and run after the try block of the function that requested them
\* has been left: the exception leaves the callback, the viewport stays, and
\* the browser goes on with the other callbacks of the frame.
AnimationFrameScrollToThrows ==
  /\ ~scrollEventPending
  /\ scrollContainerRef
  /\ jumpPending \/ enableJumpPending
  /\ LET r0 == [S EXCEPT !.runningCallbacks = frameCallbacks, !.frameCallbacks = <<>>,
                         !.jumpPending = FALSE, !.enableJumpPending = FALSE,
                         !.procPending = FALSE]
         r2 == IF procPending THEN [r0 EXCEPT !.isProcessingScroll = FALSE] ELSE r0
         r3 == runCallbacks(r2)
     IN /\ Bounded(r3)
        /\ Set(r3)
        /\ lastOp' = [Quiet EXCEPT !.scrollTo = jumpPending,
                                   !.driver = driverFrames # {},
                                   !.uncaught = TRUE]

\* setTimeout(() => { isAutoScrolling.current = false }, ANIMATION_DURATION)
AnimationTimer ==
  /\ scrollTimeoutRef
  /\ Task([S EXCEPT !.scrollTimeoutRef = FALSE, !.isAutoScrolling = FALSE])

\* more than 8 ms go by since the last throttled state update
TimePasses ==
  /\ lastStateUpdate = "recent"
  /\ Task([S EXCEPT !.lastStateUpdate = "old"])

\* enableAutoScroll of the hook's interface, called while the controller is
\* paused (DownArrowClick is the click with ChatPanel's guards)
EnableAutoScroll ==
  /\ scrollContainerRef
  /\ userHasScrolledUp
  /\ Task(Commit(S, enableAutoScroll(S)))

\* the user clicks the down arrow, which is shown while ChatPanel's copy of
\* userHasScrolledUp is true; a disabled button does not call onClick
DownArrowClick ==
  /\ scrollContainerRef
  /\ downArrowVisible
  /\ scrollingTimeouts < MaxScrolling
  /\ LET r == IF downArrowDisabled THEN S ELSE Commit(S, handleDownArrowClick(S))
     IN  /\ Bounded(r)
         /\ Set(r)
         /\ lastOp' = [Quiet EXCEPT !.click = TRUE]

\* setTimeout(() => { setIsScrollingToBottom(false) }, 300).  The timer that
\* enableAutoScroll set in the same call is due at the same time; the two are
\* not ordered here
ScrollingTimer ==
  /\ scrollingTimeouts > 0
  /\ Task([S EXCEPT !.isScrollingToBottom = FALSE, !.scrollingTimeouts = @ - 1])

\* disableAutoScroll of the hook's interface
DisableAutoScroll ==
  /\ scrollContainerRef
  /\ Task(Commit(S, disableAutoScroll(S)))

\* props of MessageList
StreamStart ==
  /\ scrollContainerRef /\ ~streaming
  /\ Task(Commit(S, [S EXCEPT !.streaming = TRUE]))

StreamStop ==
  /\ scrollContainerRef /\ streaming
  /\ Task(Commit(S, [S EXCEPT !.streaming = FALSE]))

AppendMessage ==
  /\ scrollContainerRef /\ messages < MaxMessages
  /\ Task(Commit(S, [S EXCEPT !.messages = @ + 1]))

\* the transcript gives way to the placeholder: the browser moves the viewport
\* to the top and reports the move with a scroll event
LoadingStart ==
  /\ scrollContainerRef /\ ~loadingMessages
  /\ Task(Commit(S, [S EXCEPT !.loadingMessages = TRUE, !.scrollTop = 0,
                                !.scrollEventPending = @ \/ scrollTop > 0]))

LoadingStop ==
  /\ scrollContainerRef /\ loadingMessages
  /\ Task(Commit(S, [S EXCEPT !.loadingMessages = FALSE]))

\* another conversation is selected; its transcript starts empty
ConversationChange ==
  /\ scrollContainerRef
  /\ \E c \in Conversations \ {selectedConversation} :
       Task(Commit(S, [S EXCEPT !.selectedConversation = c, !.messages = 0,
                                !.scrollTop = Min(@, MaxScrollTop(0)),
                                !.scrollEventPending = @ \/ scrollTop > MaxScrollTop(0)]))

\* MessageList is unmounted: React detaches the ref and runs the cleanups
Unmount ==
  /\ scrollContainerRef
  /\ Task(cleanup([S EXCEPT !.scrollContainerRef = FALSE, !.scrollEventPending = FALSE]))

\* the state after MessageList mounted with conversation c1: the effect on
\* [selectedConversation] has called resetAutoScrollState
Init ==
  /\ autoScrollEnabled = TRUE
  /\ userHasScrolledUp = FALSE
  /\ scrollPosition = AT_BOTTOM
  /\ lastScrollTop = 0
  /\ isAutoScrolling = FALSE
  /\ scrollContainerRef = TRUE
  /\ scrollTimeoutRef = FALSE
  /\ isProcessingScroll = FALSE
  /\ lastStateUpdate = "recent"
  /\ scrollIntervalRef = 0
  /\ prevMessageCountRef = 0
  /\ prevStreamingRef = FALSE
  /\ prevConversationRef = "c1"
  /\ prevLoadingRef = FALSE
  /\ messages = 0
  /\ streaming = FALSE
  /\ loadingMessages = FALSE
  /\ selectedConversation = "c1"
  /\ scrollTop = 0
  /\ scrollEventPending = FALSE
  /\ frameCallbacks = <<>>
  /\ runningCallbacks = <<>>
  /\ jumpPending = FALSE
  /\ enableJumpPending = FALSE
  /\ procPending = FALSE
  /\ debouncePending = FALSE
  /\ staleDebounce = {}
  /\ debounceEvent = NoEvent
  /\ awaitingFirstScroll = TRUE
  /\ autoScrollState = [autoScrollEnabled |-> TRUE, userHasScrolledUp |-> FALSE,
                        scrollPosition |-> AT_BOTTOM]
  /\ isScrollingToBottom = FALSE
  /\ autoScrollFunctions = TRUE
  /\ scrollingTimeouts = 0
  /\ probe = NoProbe
  /\ lastOp = Quiet

\* The scroll pipeline, the controller's operations and a stream, within one
\* conversation
Next ==
  \/ UserScroll
  \/ HandleScroll
  \/ DebounceFire
  \/ StaleDebounceFire
  \/ AnimationFrame
  \/ TimePasses
  \/ EnableAutoScroll
  \/ StreamStart
  \/ StreamStop
  \/ AppendMessage

Spec == Init /\ [][Next]_vars

\* Conversation switches with the scroll pipeline, no stream
NextReset ==
  \/ UserScroll
  \/ HandleScroll
  \/ DebounceFire
  \/ StaleDebounceFire
  \/ AnimationFrame
  \/ TimePasses
  \/ EnableAutoScroll
  \/ DisableAutoScroll
  \/ ConversationChange

SpecReset == Init /\ [][NextReset]_vars

\* Conversation switches during a stream, the viewport left alone by the user
NextDriver ==
  \/ AnimationFrame
  \/ TimePasses
  \/ EnableAutoScroll
  \/ DisableAutoScroll
  \/ StreamStart
  \/ StreamStop
  \/ AppendMessage
  \/ ConversationChange

SpecDriver == Init /\ [][NextDriver]_vars

\* Teardown of the component
NextTeardown ==
  \/ UserScroll
  \/ HandleScroll
  \/ DebounceFire
  \/ StaleDebounceFire
  \/ AnimationFrame
  \/ AnimationTimer
  \/ StreamStart
  \/ AppendMessage
  \/ Unmount

SpecTeardown == Init /\ [][NextTeardown]_vars

\* getScrollPositionState is called with the metrics of the given element and
\* the recorded last offset
Classify ==
  /\ probe.on
  /\ probe.position = "none"
  /\ Task([S EXCEPT !.probe.lastScrollTop = lastScrollTop,
                    !.probe.position =
                      getScrollPositionState(probe.scrollTop, probe.scrollHeight,
                                             probe.clientHeight, lastScrollTop)])

\* the hook mounted, FOLLOWING or PAUSED, any time after its last throttled
\* update, with a scroll event of an element of given metrics to be delivered
InitProbe ==
  /\ \E following \in BOOLEAN :
       /\ autoScrollEnabled = following
       /\ userHasScrolledUp = ~following
       /\ scrollPosition = IF following THEN AT_BOTTOM ELSE SCROLLED_UP
  /\ lastScrollTop \in ProbeOffsets
  /\ isAutoScrolling = FALSE
  /\ scrollContainerRef = TRUE
  /\ scrollTimeoutRef = FALSE
  /\ isProcessingScroll = FALSE
  /\ lastStateUpdate \in {"recent", "old"}
  /\ scrollIntervalRef = 0
  /\ prevMessageCountRef = 0
  /\ prevStreamingRef = FALSE
  /\ prevConversationRef = "c1"
  /\ prevLoadingRef = FALSE
  /\ messages = 0
  /\ streaming = FALSE
  /\ loadingMessages = FALSE
  /\ selectedConversation = "c1"
  /\ scrollTop = 0
  /\ scrollEventPending = TRUE
  /\ frameCallbacks = <<>>
  /\ runningCallbacks = <<>>
  /\ jumpPending = FALSE
  /\ enableJumpPending = FALSE
  /\ procPending = FALSE
  /\ debouncePending = FALSE
  /\ staleDebounce = {}
  /\ debounceEvent = NoEvent
  /\ awaitingFirstScroll = TRUE
  /\ autoScrollState = [autoScrollEnabled |-> TRUE, userHasScrolledUp |-> FALSE,
                        scrollPosition |-> AT_BOTTOM]
  /\ isScrollingToBottom = FALSE
  /\ autoScrollFunctions = TRUE
  /\ scrollingTimeouts = 0
  /\ probe \in [on : {TRUE}, scrollTop : ProbeOffsets, scrollHeight : ProbeExtents,
                clientHeight : ProbeExtents, lastScrollTop : {0}, position : {"none"}]
  /\ lastOp = Quiet

\* The classifier and the scroll pipeline on an element of given metrics
NextProbe ==
  \/ Classify
  \/ HandleScroll
  \/ DebounceFire
  \/ StaleDebounceFire
  \/ AnimationFrame

SpecProbe == InitProbe /\ [][NextProbe]_vars

\* Enable, appends and a stream with a container whose scrollTo can throw
NextFault ==
  \/ AnimationFrame
  \/ AnimationFrameScrollToThrows
  \/ TimePasses
  \/ EnableAutoScroll
  \/ DisableAutoScroll
  \/ StreamStart
  \/ StreamStop
  \/ AppendMessage

SpecFault == Init /\ [][NextFault]_vars

\* Appends outside a stream, with the scroll pipeline and conversation
\* switches.
NextAppend ==
  \/ UserScroll
  \/ HandleScroll
  \/ DebounceFire
  \/ StaleDebounceFire
  \/ AnimationFrame
  \/ AppendMessage
  \/ ConversationChange

\* Loading of a transcript with the scroll pipeline and appends, no stream
NextLoading ==
  \/ UserScroll
  \/ HandleScroll
  \/ DebounceFire
  \/ StaleDebounceFire
  \/ AnimationFrame
  \/ LoadingStart
  \/ LoadingStop
  \/ AppendMessage

SpecLoading == Init /\ [][NextLoading]_vars

\* Calls of handleScroll without a target, with the scroll pipeline and a stream
NextNoTarget ==
  \/ UserScroll
  \/ HandleScroll
  \/ HandleScrollNoTarget
  \/ DebounceFire
  \/ StaleDebounceFire
  \/ AnimationFrame
  \/ StreamStart

SpecNoTarget == Init /\ [][NextNoTarget]_vars

\* the guard of HandleScroll
HandleScrollEnabled ==
  /\ scrollContainerRef
  /\ scrollEventPending
  /\ Bounded(Commit(S, handleScroll([S EXCEPT !.scrollEventPending = FALSE])))

\* The browser dispatches a scroll event that is due: strong fairness of
\* HandleScroll, written out with its guard in the place of ENABLED.
ScrollDelivery == <>[](~HandleScrollEnabled) \/ []<><<HandleScroll>>_vars

\* A timer that a superseded debounce instance has set fires: weak fairness of
\* StaleDebounceFire, whose guard is that such a call waits.
TimerDelivery == []<>(staleDebounce = {}) \/ []<><<StaleDebounceFire>>_vars

\* Appends and streams with the scroll events the jumps raise; the user leaves
\* the viewport alone
NextFollow ==
  \/ HandleScroll
  \/ DebounceFire
  \/ AnimationFrame
  \/ TimePasses
  \/ StreamStart
  \/ StreamStop
  \/ AppendMessage

SpecFollow == Init /\ [][NextFollow]_vars

\* The timer of the current debounce instance fires: weak fairness of
\* DebounceFire, whose guard is that its call waits.
DebounceDelivery == []<>(~debouncePending) \/ []<><<DebounceFire>>_vars

\* Streams, pauses and resumes with the scroll events the jumps raise
NextStream ==
  \/ HandleScroll
  \/ DebounceFire
  \/ StaleDebounceFire
  \/ AnimationFrame
  \/ TimePasses
  \/ EnableAutoScroll
  \/ DisableAutoScroll
  \/ StreamStart
  \/ StreamStop

\* The browser runs the frames, dispatches the scroll events and fires the
\* timers that are due.
SpecStream ==
  /\ Init /\ [][NextStream]_vars
  /\ SF_vars(AnimationFrame)
  /\ ScrollDelivery
  /\ TimerDelivery
  /\ DebounceDelivery

\* Clicks on the down arrow with the scroll pipeline and reloads of the
\* conversation; the timer of a click fires
NextClick ==
  \/ UserScroll
  \/ HandleScroll
  \/ DebounceFire
  \/ StaleDebounceFire
  \/ AnimationFrame
  \/ AnimationTimer
  \/ TimePasses
  \/ DownArrowClick
  \/ ScrollingTimer
  \/ LoadingStart
  \/ LoadingStop

SpecClick == Init /\ [][NextClick]_vars /\ WF_vars(ScrollingTimer)

\* The browser keeps rendering: an animation frame runs again and again while
\* callbacks wait, however often scroll events come in between.
SpecAppend ==
  /\ Init /\ [][NextAppend]_vars
  /\ SF_vars(AnimationFrame)
  /\ ScrollDelivery
  /\ TimerDelivery

TypeOK ==
  /\ autoScrollEnabled \in BOOLEAN /\ userHasScrolledUp \in BOOLEAN
  /\ awaitingFirstScroll \in BOOLEAN
  /\ isScrollingToBottom \in BOOLEAN /\ autoScrollFunctions \in BOOLEAN
  /\ scrollingTimeouts \in 0..MaxScrolling
  /\ autoScrollState \in [autoScrollEnabled : BOOLEAN, userHasScrolledUp : BOOLEAN,
                         scrollPosition : SCROLL_POSITION]
  /\ scrollPosition \in SCROLL_POSITION
  /\ scrollIntervalRef \in 0..(MaxDriver + 2)
  /\ lastStateUpdate \in {"recent", "old"}
  /\ messages \in 0..MaxMessages
  /\ scrollTop \in 0..MaxScrollTop(messages)
  /\ runningCallbacks = <<>>
  \* the slot holds the id of a frame that waits, or nothing
  /\ scrollIntervalRef # 0 => \E f \in driverFrames : f.id = scrollIntervalRef

----------------------------------------------------------------------------
\* States the claims speak of

FOLLOWING == autoScrollEnabled /\ ~userHasScrolledUp

PAUSED == ~autoScrollEnabled /\ userHasScrolledUp

\* the step is handleScroll receiving a scroll event (under a specification
\* without Unmount no other step takes the pending event)
HandleScrollStep == scrollEventPending /\ ~scrollEventPending'

\* handleScroll's immediate path detects deliberate upward navigation while a
\* driver frame waits during a stream
DetectsMidStream ==
  /\ HandleScrollStep
  /\ lastScrollTop - scrollTop > ImmediateThreshold
  /\ streaming
  /\ driverFrames # {}

\* the step is a change of conversation, in which resetAutoScrollState runs
ResetStep == selectedConversation' # selectedConversation

\* the step is a call of enableAutoScroll with the container attached: it
\* requests the frame of its scrollTo
EnableStep == ~enableJumpPending /\ enableJumpPending'

\* the state a call of enableAutoScroll in state r leaves, rendered
AfterEnable(r) == Commit(r, enableAutoScroll(r))

\* the state a call of disableAutoScroll in state r leaves, rendered
AfterDisable(r) == Commit(r, disableAutoScroll(r))

\* the step is a debounced pass that ran to its end: only debouncedScrollHandler
\* sets isProcessingScroll while nothing loads
ClassifiedStep == ~isProcessingScroll /\ isProcessingScroll'

\* the step is a debounced pass that ran to its end with the viewport where
\* the last scroll event handled left it: every move raises a scroll event,
\* and none waits
SettledPassStep == ClassifiedStep /\ ~scrollEventPending

\* what the classifier returns for the viewport and the recorded offset
ClassifierResult ==
  getScrollPositionState(scrollTop, ContentHeight(S), ClientHeight, lastScrollTop)

\* the viewport is within the bottom band
ViewportAtBottom == isAtBottom(scrollTop, ScrollHeight(messages), ClientHeight)

\* the given element was classified
Classified == probe.on /\ probe.position # "none"

\* its metrics are in the bottom band
ProbeAtBottom == probe.scrollHeight - probe.scrollTop - probe.clientHeight <= SCROLL_THRESHOLD

\* its metrics violate scrollHeight >= clientHeight >= 0
ProbeInvalid == probe.on /\ ~(probe.scrollHeight >= probe.clientHeight /\ probe.clientHeight >= 0)

\* the step is the render in which the prop streaming goes from false to true
StreamStartStep == ~streaming /\ streaming'

\* the step adds a message to the transcript
AppendStep == messages' > messages

\* the frame the new-messages effect requested waits
AppendWaiting == \E i \in 1..Len(frameCallbacks) : frameCallbacks[i].kind = "append"

\* the calls that wait in debounce instances
CallsPending(pending, stale) == (IF pending THEN 1 ELSE 0) + Cardinality(stale)

\* the step is handleScroll receiving a scroll event of the mounted container
IntakeStep == HandleScrollStep /\ scrollContainerRef'

----------------------------------------------------------------------------
\* C1: while the controller is PAUSED no scrollTo is issued on the viewport,
\* also not one requested on an earlier frame while the state was FOLLOWING.
C1_NoScrollToWhilePaused == lastOp.scrollTo => ~PAUSED

\* C2: a scroll event that handleScroll receives while FOLLOWING, with a drop
\* of more than the manual-scroll threshold to a place off the bottom band,
\* has the pause applied exactly once: once by the immediate path, and not
\* again by the debounced pass of the same event.
C2_PauseExactlyOncePerEvent == lastOp.deliberate => lastOp.pauses = 1

\* C3: when handleScroll detects deliberate upward navigation while the driver
\* runs during a stream, the handler leaves no driver frame and no one-shot
\* jump frame waiting, so that no iteration and no scrollTo follows the
\* detection.
C3_DetectionCancelsDriver ==
  [][DetectsMidStream => driverFrames' = {} /\ ~jumpPending']_vars

\* C4: resetAutoScrollState always leaves enabled = true, userHasScrolledUp =
\* false, position = AT_BOTTOM, however recent the previous state update is.
C4_ResetYieldsFollowing ==
  [][ResetStep => autoScrollEnabled' /\ ~userHasScrolledUp' /\ scrollPosition' = AT_BOTTOM]_vars

\* C5: resetAutoScrollState cancels a running driver loop: no driver frame
\* that waits when the conversation changes still waits after the reset.
C5_ResetCancelsDriver ==
  [][ResetStep => driverFrames \cap driverFrames' = {}]_vars

\* C6: resetAutoScrollState cancels the outstanding debounce timer: no
\* debounced call made by a scroll event before the reset is pending after it.
C6_ResetCancelsDebounce ==
  [][ResetStep => ~debouncePending' /\ staleDebounce' = {}]_vars

\* C7: after teardown no callback of the controller is pending: debounce
\* frame or timer, driver frame, one-shot jump frame, completion timer.
C7_TeardownLeavesNothingPending ==
  ~scrollContainerRef =>
     /\ frameCallbacks = <<>>
     /\ ~jumpPending
     /\ ~enableJumpPending
     /\ ~procPending
     /\ ~debouncePending
     /\ staleDebounce = {}
     /\ ~scrollTimeoutRef

\* C8: at most one driver loop is active at any time.
C8_SingleDriverLoop == Cardinality(driverFrames) <= 1

\* C9: a driver frame waits only while a stream is active and auto-scroll is
\* enabled.
C9_DriverOnlyWhileStreamingAndEnabled ==
  driverFrames # {} => streaming /\ autoScrollEnabled

\* C10: a driver iteration that runs while the current state is not FOLLOWING,
\* or without a viewport, does not schedule itself again.
C10_IterationChecksCurrentState ==
  lastOp.driver /\ (~FOLLOWING \/ ~scrollContainerRef) => driverFrames = {}

\* C11: the immediate detection of a scroll event is complete before the
\* debounced classification of that event can run.  A debounced call starts to
\* wait only in the step in which handleScroll received the event, and at the
\* end of that step the event's offset is recorded, a drop of more than the
\* immediate threshold has set userHasScrolledUp and emptied the driver slot,
\* and the event waits in the debounce.  In that step no suspended work runs:
\* no classification pass, no driver iteration, no jump.
C11_ImmediatePrecedesDebounced ==
  [][ /\ CallsPending(debouncePending', staleDebounce')
           > CallsPending(debouncePending, staleDebounce) => IntakeStep
      /\ IntakeStep =>
           /\ lastScrollTop' = scrollTop
           /\ lastScrollTop - scrollTop > ImmediateThreshold =>
                 userHasScrolledUp' /\ ~autoScrollEnabled' /\ scrollIntervalRef' = 0
           /\ debouncePending' \/ staleDebounce' # {}
           /\ isProcessingScroll' = isProcessingScroll /\ procPending' = procPending
           /\ scrollPosition' = scrollPosition
           /\ driverFrames' \subseteq driverFrames
           /\ jumpPending' = jumpPending /\ scrollTop' = scrollTop ]_vars

\* a call waits in a debounce instance after the immediate path has paused
\* during a stream
C11_Witness ==
  /\ debouncePending \/ staleDebounce # {}
  /\ PAUSED /\ streaming /\ scrollIntervalRef = 0
  /\ lastScrollTop = scrollTop /\ ~procPending

\* C12: with the container attached, enableAutoScroll leaves FOLLOWING with
\* position AT_BOTTOM, also when it is called right after the state was paused.
C12_EnableYieldsFollowing ==
  [][EnableStep => autoScrollEnabled' /\ ~userHasScrolledUp' /\ scrollPosition' = AT_BOTTOM]_vars

\* C13: enableAutoScroll is idempotent on the state: called twice in succession
\* it leaves enabled, userHasScrolledUp and position as one call leaves them,
\* and that is FOLLOWING with AT_BOTTOM.
C13_EnableIdempotent ==
  scrollContainerRef =>
    /\ Rendered(AfterEnable(AfterEnable(S))) = Rendered(AfterEnable(S))
    /\ Rendered(AfterEnable(S)) = [autoScrollEnabled |-> TRUE, userHasScrolledUp |-> FALSE,
                                   scrollPosition |-> AT_BOTTOM]

\* handleScroll's immediate path pauses the controller
PausedByDetection == IntakeStep /\ ~userHasScrolledUp /\ userHasScrolledUp'

\* C14: disableAutoScroll leaves PAUSED with position SCROLLED_UP from any
\* state, and a pause set by the detection of upward navigation leaves
\* position SCROLLED_UP as well.
C14_PauseYieldsScrolledUp ==
  [][ /\ scrollContainerRef =>
           Rendered(AfterDisable(S)) = [autoScrollEnabled |-> FALSE, userHasScrolledUp |-> TRUE,
                                        scrollPosition |-> SCROLLED_UP]
      /\ PausedByDetection => scrollPosition' = SCROLLED_UP ]_vars

\* C15: a classification pass that finds the viewport at the bottom while the
\* controller is PAUSED leaves it FOLLOWING, also the pass of the scroll event
\* that caused the pause.
C15_ImplicitResume ==
  [][ClassifiedStep /\ PAUSED /\ ViewportAtBottom => FOLLOWING']_vars

\* C16: the controller is either FOLLOWING or PAUSED: in every rendered state
\* autoScrollEnabled is true exactly when userHasScrolledUp is false.
C16_TwoStates == autoScrollEnabled <=> ~userHasScrolledUp

\* PAUSED while a call of a superseded debounce instance waits whose closure
\* holds userHasScrolledUp = false
C16_Witness == PAUSED /\ \E d \in staleDebounce : ~d.userHasScrolledUp

\* C17: for metrics with scrollHeight - scrollTop - clientHeight <= 50, also
\* overscrolled ones, getScrollPositionState returns AT_BOTTOM whatever the
\* last offset is.
C17_BottomBandIsAtBottom == Classified /\ ProbeAtBottom => probe.position = AT_BOTTOM

\* overscrolled metrics with an offset below the last one were classified
C17_Witness ==
  /\ Classified /\ probe.position = AT_BOTTOM
  /\ probe.scrollTop + probe.clientHeight > probe.scrollHeight
  /\ probe.scrollTop < probe.lastScrollTop

\* C18: for metrics that are not in the bottom band getScrollPositionState
\* returns SCROLLING_DOWN exactly when the offset is below the last offset
\* and SCROLLED_UP otherwise; the result is always one of the three positions.
C18_OffBottomByDirection ==
  Classified =>
    /\ probe.position \in SCROLL_POSITION
    /\ ~ProbeAtBottom =>
         probe.position = (IF probe.scrollTop < probe.lastScrollTop THEN SCROLLING_DOWN ELSE SCROLLED_UP)

\* off the bottom band with the offset equal to the last one: SCROLLED_UP
C18_Witness ==
  /\ Classified /\ ~ProbeAtBottom
  /\ probe.scrollTop = probe.lastScrollTop /\ probe.position = SCROLLED_UP

\* C19: a scroll event whose metrics violate scrollHeight >= clientHeight >= 0
\* is skipped: neither the handler nor the debounced pass changes enabled,
\* userHasScrolledUp or position.
C19_InvalidMetricsSkipped ==
  [][ProbeInvalid => UNCHANGED <<autoScrollEnabled, userHasScrolledUp, scrollPosition>>]_vars

\* C20: a scrollTo that throws during enableAutoScroll, autoScrollToBottom or
\* a driver iteration is caught inside the hook: the exception does not leave
\* the frame callback that calls scrollTo.
C20_ScrollToFailureCaught == ~lastOp.uncaught

\* C21: a stream that starts while the controller is PAUSED leaves it PAUSED
\* and requests no jump to the bottom.
C21_StreamStartRespectsPause ==
  [][StreamStartStep /\ PAUSED => PAUSED' /\ enableJumpPending' = enableJumpPending]_vars

\* C22: a stream that starts while the controller is FOLLOWING starts the
\* driver loop, and every animation frame in which the loop iterates while the
\* state is FOLLOWING requests a jump to the bottom and the next iteration.
C22_DriverJumpsEveryFrame ==
  [][ /\ StreamStartStep /\ FOLLOWING =>
           driverFrames' # {} /\ scrollIntervalRef' # 0
      /\ lastOp'.driver /\ FOLLOWING /\ scrollContainerRef =>
           jumpPending' /\ driverFrames' # {} ]_vars

\* the loop has iterated during a stream in FOLLOWING
C22_Witness ==
  /\ lastOp.driver /\ FOLLOWING /\ streaming
  /\ jumpPending /\ driverFrames # {}

\* C23: outside a stream, an append that adds a message while auto-scroll is
\* enabled requests a frame for autoScrollToBottom, and a waiting frame of that
\* kind is eventually followed by a scrollTo to the bottom; a frame of that
\* kind is requested only by an append made while auto-scroll is enabled.
C23_AppendScrollsWhenFollowing ==
  /\ [][AppendStep /\ autoScrollEnabled => AppendWaiting']_vars
  /\ [][Len(frameCallbacks') > Len(frameCallbacks) => AppendStep /\ autoScrollEnabled]_vars
  /\ (AppendWaiting ~> lastOp.scrollTo)

\* a message was appended in FOLLOWING and its scrollTo has been issued
C23_Witness == lastOp.scrollTo /\ messages > 0 /\ FOLLOWING /\ ~streaming

C25_ParentHoldsCurrentState ==
  /\ [](autoScrollState = Rendered(S))
  /\ [][Rendered(S)' # Rendered(S) => autoScrollState' # autoScrollState]_vars

\* a pause was detected and reported
C25_Witness ==
  /\ PAUSED /\ scrollPosition # AT_BOTTOM
  /\ autoScrollState.userHasScrolledUp /\ ~autoScrollState.autoScrollEnabled

\* C26: shouldShowDownArrow() and ChatPanel's downArrowVisible are true exactly
\* when userHasScrolledUp is: the down arrow is hidden in FOLLOWING, the initial
\* state included, and shown in PAUSED.
C26_DownArrowIffScrolledUp ==
  /\ shouldShowDownArrow(S) = userHasScrolledUp
  /\ downArrowVisible = userHasScrolledUp
  /\ (FOLLOWING => ~downArrowVisible)
  /\ (PAUSED => downArrowVisible)

\* the arrow is shown with the viewport back in the bottom band
C26_Witness == PAUSED /\ downArrowVisible /\ scrollPosition = AT_BOTTOM

\* C27: of the scroll events of a burst one classification call waits, that of
\* the last event: when a debounced pass runs, no other classification call is
\* left waiting, so the burst is classified once.
C27_BurstClassifiedOnce ==
  [][ClassifiedStep => ~debouncePending' /\ staleDebounce' = {}]_vars

\* C28: a scroll event that handleScroll receives while messages are loading
\* changes none of autoScrollEnabled, userHasScrolledUp and scrollPosition.
C28_NoScrollProcessingWhileLoading ==
  [][loadingMessages /\ HandleScrollStep => Rendered(S)' = Rendered(S)]_vars

\* C29: the step in which loadingMessages goes from true to false leaves a
\* frame for autoScrollToBottom or its scrollTo waiting if auto-scroll is
\* enabled and there are messages, and requests no frame if auto-scroll is
\* disabled.
C29_LoadingCompleteScrolls ==
  /\ [][loadingMessages /\ ~loadingMessages' /\ messages > 0 /\ autoScrollEnabled
          => AppendWaiting' \/ jumpPending']_vars
  /\ [][loadingMessages /\ ~loadingMessages' /\ ~autoScrollEnabled
          => frameCallbacks' = frameCallbacks]_vars

\* C30: a call of handleScroll with null or with an object without target
\* changes nothing: state, lastScrollTop, the driver and its slot, the
\* callbacks and timers that wait, and no debounced call is scheduled.
C30_NoTargetIsNoOp ==
  [][lastOp'.noTarget =>
       /\ Rendered(S)' = Rendered(S)
       /\ lastScrollTop' = lastScrollTop
       /\ scrollIntervalRef' = scrollIntervalRef
       /\ frameCallbacks' = frameCallbacks
       /\ debouncePending' = debouncePending /\ debounceEvent' = debounceEvent
       /\ staleDebounce' = staleDebounce
       /\ S' = S]_vars

\* the call came with the driver running, the viewport off the recorded offset
\* and no classification call waiting
C30_Witness ==
  /\ lastOp.noTarget /\ streaming /\ scrollIntervalRef # 0
  /\ scrollTop < lastScrollTop - ImmediateThreshold /\ ~debouncePending

\* C31: whenever a stream is active and the controller is FOLLOWING, the
\* driver comes to run (a driver frame waits) unless the stream ends or
\* FOLLOWING is left first.
C31_DriverRunsWhileStreamingAndFollowing ==
  (streaming /\ FOLLOWING /\ scrollContainerRef)
     ~> (driverFrames # {} \/ ~streaming \/ ~FOLLOWING)

\* C32: with only appends, driver frames and the scroll events their jumps
\* raise, every scroll event handleScroll receives has an offset not below the
\* recorded one, no such event pauses, and the controller stays FOLLOWING.
C32_ProgrammaticScrollNeverPauses ==
  /\ [](FOLLOWING)
  /\ [][HandleScrollStep => scrollTop >= lastScrollTop /\ FOLLOWING']_vars

\* a scroll event raised by a jump of the driver was handled after the content
\* had grown
C32_Witness ==
  /\ FOLLOWING /\ streaming /\ messages > 0 /\ lastOp.driver
  /\ lastScrollTop = MaxScrollTop(messages) /\ lastScrollTop > 0

\* C33: the first scroll event handleScroll receives after a call of
\* resetAutoScrollState does not trigger the detection of manual scrolling:
\* its offset is not more than the threshold below the recorded one, and it
\* does not take the controller out of FOLLOWING.
C33_FirstScrollAfterResetNotDetected ==
  [][HandleScrollStep /\ awaitingFirstScroll =>
       /\ lastScrollTop - scrollTop <= ImmediateThreshold
       /\ (FOLLOWING => FOLLOWING')]_vars

\* C34: between tasks scrollIntervalRef is non-null exactly when a driver
\* frame waits, and then it holds the id of a waiting driver frame.
C34_SlotIdentifiesLiveLoop ==
  /\ (scrollIntervalRef # 0 <=> driverFrames # {})
  /\ (scrollIntervalRef # 0 => \E f \in driverFrames : f.id = scrollIntervalRef)

ClickStep == lastOp'.click

\* the step calls enableAutoScroll from handleDownArrowClick: the call sets
\* one more timer
ClickEnableStep == scrollingTimeouts' > scrollingTimeouts

\* C36: a click on the down arrow while messages load, while the flag of an
\* earlier click is up or before the controller's functions are registered
\* does not call enableAutoScroll; at most one call is made per 300 ms
\* window; the flag is up exactly while the timer of the call waits and is
\* cleared again.
C36_ClickGuarded ==
  /\ [][ClickStep /\ (loadingMessages \/ isScrollingToBottom \/ ~autoScrollFunctions) =>
         /\ ~ClickEnableStep
         /\ UNCHANGED << autoScrollEnabled, userHasScrolledUp, scrollPosition,
                         isAutoScrolling, scrollTimeoutRef, enableJumpPending >>]_vars
  /\ [](scrollingTimeouts <= 1)
  /\ [](isScrollingToBottom <=> scrollingTimeouts = 1)
  /\ (isScrollingToBottom ~> ~isScrollingToBottom)

\* a click on the disabled button inside the window of an earlier click, the
\* user having scrolled up again since: nothing is enabled
C36_Witness ==
  /\ lastOp.click /\ isScrollingToBottom /\ scrollingTimeouts = 1
  /\ PAUSED /\ downArrowVisible /\ ~enableJumpPending /\ ~isAutoScrolling

====
